---- MODULE Spec2Model ----
(***************************************************************************)
(* Model of the overdensity detector of the Tutorial-ADASS-2023 notebooks  *)
(* (DwarfGalaxiesInSmash_WithExercises.ipynb): the function dwarf_filter,  *)
(* the cell that runs it and the cell that finds the peaks of the clipped  *)
(* field and attaches RA/Dec to them.                                      *)
(*                                                                         *)
(* Floating point is rendered in fixed point:                              *)
(*   - sky coordinates are integers in arcseconds (1 degree = 3600);       *)
(*   - field values (convolved counts) are integers in 1/FScale counts;    *)
(*   - cos() is in units of 1e-6, exp() in units of 1e-3.                  *)
(* NaN and Inf are two sentinel values outside the coordinate range.       *)
(***************************************************************************)
EXTENDS Integers, Sequences, FiniteSets, TLC

\* ---------------------------------------------------------------- bounds
\* at most MaxRuns distinct positions are drawn for the input point set
MaxRuns == 2
\* a drawn position is repeated once or Cluster times in the ra/dec arrays
Cluster == 200
\* the run cell is executed at most MaxCalls times on one query result
MaxCalls == 3
\* the image search returns at most MaxRows rows
MaxRows == 3
\* a spectrum has at most MaxPixels pixels
MaxPixels == 2
\* the cross-match has at most MaxMatches rows
MaxMatches == 4

\* ------------------------------------------------------- number rendering
\* float('nan') and float('inf') of the coordinate arrays
NaN == 0 - 99999999
Inf == 99999999
\* field values are held in units of 1/FScale counts
FScale == 100

IsFinite(v) == v # NaN /\ v # Inf

\* declination about which cos() is linearised: 28d55m, in arcseconds
DecBase == 104100
\* right ascensions and declinations the input points are drawn from
RAVals == {0, 100, 240}
DecVals == {DecBase, DecBase + 20, DecBase + 180}
\* the kernel widths (arcmin) dwarf_filter is called with
FwhmVals == {0 - 2, 0, 2, 20}

\* ------------------------------------------------------------ sequences
Range(s) == {s[i] : i \in 1..Len(s)}

\* n copies of v
Repeat(v, n) == [i \in 1..n |-> v]

RECURSIVE SumSeq(_)
SumSeq(s) == IF s = <<>> THEN 0 ELSE Head(s) + SumSeq(Tail(s))

RECURSIVE Flatten(_)
Flatten(rows) == IF rows = <<>> THEN <<>> ELSE Head(rows) \o Flatten(Tail(rows))

\* p/q for q > 0 rounded to the nearest integer, halves away from zero: like
\* the floating-point quotient, the rounding of -p/q is minus that of p/q
RoundDiv(p, q) ==
  IF p >= 0 THEN (2 * p + q) \div (2 * q) ELSE 0 - ((2 * (0 - p) + q) \div (2 * q))

SetMin(S) == CHOOSE m \in S : \A v \in S : m <= v
SetMax(S) == CHOOSE m \in S : \A v \in S : m >= v

\* ---------------------------------------------------- pandas reductions
\* The notebook passes R['ra'], R['dec'], columns of the pandas frame that
\* qc.query(..., fmt='pandas') returns.
\* Series.min() / Series.max(): NaN entries are skipped, an empty (or
\* all-NaN) Series gives NaN, Inf is an ordinary largest value
SeriesMin(s) ==
  LET vals == Range(s) \ {NaN}
  IN  IF vals = {} THEN NaN ELSE SetMin(vals)

SeriesMax(s) ==
  LET vals == Range(s) \ {NaN}
  IN  IF vals = {} THEN NaN ELSE SetMax(vals)

\* ------------------------------------------------------------ np.cos
\* np.cos(ymean*(np.pi/180.0)) in units of 1e-6; the argument is 2*ymean in
\* arcseconds (ymean is a half-integer). First-order expansion about
\* DecBase: cos(28d55m) = 0.875324, d cos / d arcsec = -2.3442e-6.
CosE6(ymean2) == 875324 - ((23442 * (ymean2 - 2 * DecBase)) \div 20000)

\* ------------------------------------------------------------ np.rint
\* Rint rounding down
RintFloor(p, q) == p \div q

\* np.rint(p/q) for p >= 0, q > 0: round to nearest, ties to even
Rint(p, q) ==
  LET f == p \div q
      r == p % q
  IN  IF 2 * r < q THEN f
      ELSE IF 2 * r > q THEN f + 1
      ELSE IF f % 2 = 0 THEN f ELSE f + 1

\* BinsY never below one bin
BinsYAtLeastOne(y) ==
  IF Rint(SeriesMax(y) - SeriesMin(y), 60) < 1 THEN 1 ELSE Rint(SeriesMax(y) - SeriesMin(y), 60)

\* number of one-arcmin pixels along Dec: np.rint((y.max()-y.min())*60.0)
BinsY(y) == Rint(SeriesMax(y) - SeriesMin(y), 60)

\* YMean2 as twice the average of the values of y
YMean2Average(y) ==
  LET total == SumSeq([i \in 1..Cardinality(Range(y)) |->
                 LET v == CHOOSE w \in Range(y) : Cardinality({u \in Range(y) : u < w}) = i - 1
                 IN  (v - DecBase) * Cardinality({k \in 1..Len(y) : y[k] = v})])
  IN  2 * DecBase + RoundDiv(2 * total, Len(y))

\* twice ymean = (y.min() + y.max()) / 2.0
YMean2(y) == SeriesMin(y) + SeriesMax(y)

\* number of one-arcmin pixels along RA:
\* np.rint((x.max()-x.min()) * cos(ymean) * 60.0), ymean the mid-range of y
BinsX(x, y) ==
  Rint((SeriesMax(x) - SeriesMin(x)) * CosE6(YMean2(y)), 60000000)

\* ------------------------------------------------------- np.histogram2d
\* np.linspace(lo, hi, n + 1): the n + 1 bin edges lo + j*(hi - lo)/n, the
\* last one being hi itself
RECURSIVE LinspaceUpTo(_, _, _, _)
LinspaceUpTo(lo, hi, n, j) ==
  IF j = 0 THEN <<lo>>
  ELSE Append(LinspaceUpTo(lo, hi, n, j - 1), IF j = n THEN hi ELSE lo + ((j * (hi - lo)) \div n))

\* Linspace as lo plus whole multiples of the truncated step, the last edge
\* not set to hi
LinspaceStepped(lo, hi, n) == [j \in 1..(n + 1) |-> lo + (j - 1) * ((hi - lo) \div n)]

Linspace(lo, hi, n) == LinspaceUpTo(lo, hi, n, n)

\* np.searchsorted(edges, v, side='right'): number of edges <= v
SearchSortedRight(edges, v) == Cardinality({j \in 1..Len(edges) : edges[j] <= v})

\* BinOf without the shift of the values on the rightmost edge
BinOfOpenEdge(edges, v) == SearchSortedRight(edges, v)

\* bin number (1-based, 0 and n+1 are the outlier bins) of value v; values on
\* the rightmost edge are shifted into the last bin
BinOf(edges, v) ==
  LET c == SearchSortedRight(edges, v)
  IN  IF v = edges[Len(edges)] THEN c - 1 ELSE c

\* Counts[i][j]: number of k with x[k] in RA bin i and y[k] in Dec bin j
Histogram2d(x, y, nx, ny) ==
  LET xedges == Linspace(SeriesMin(x), SeriesMax(x), nx)
      yedges == Linspace(SeriesMin(y), SeriesMax(y), ny)
  IN  [Counts |-> [i \in 1..nx |-> [j \in 1..ny |->
                     Cardinality({k \in 1..Len(x) :
                        BinOf(xedges, x[k]) = i /\ BinOf(yedges, y[k]) = j})]],
       xedges |-> xedges,
       yedges |-> yedges]

\* Counts.T.copy(): rows are Dec bins, columns are RA bins
Transpose(m, nx, ny) == [j \in 1..ny |-> [i \in 1..nx |-> m[i][j]]]

\* ------------------------------------------------------------ np.exp
\* exp(-k) for k = 0..15, in units of 1e-5
ExpTabE5 == <<100000, 36788, 13534, 4979, 1832, 674, 248, 91, 34, 12, 5, 2, 1, 0, 0, 0>>

\* term k of the series of exp(-f), f in units of 1e-4, in units of 1e-4
RECURSIVE ExpTerm(_, _)
ExpTerm(f, k) == IF k = 0 THEN 10000 ELSE (ExpTerm(f, k - 1) * f) \div (10000 * k)

\* exp(-f) for 0 <= f < 1 (f in units of 1e-4), in units of 1e-4
ExpFracE4(f) ==
  ExpTerm(f, 0) - ExpTerm(f, 1) + ExpTerm(f, 2) - ExpTerm(f, 3) + ExpTerm(f, 4)
    - ExpTerm(f, 5) + ExpTerm(f, 6) - ExpTerm(f, 7) + ExpTerm(f, 8)

\* exp(-num/(den1*10000)) in units of 1e-3
ExpNegE3(num, den1) ==
  LET k == num \div (den1 * 10000)
      f == (num % (den1 * 10000)) \div den1
  IN  IF k > 15 THEN 0 ELSE (ExpTabE5[k + 1] * ExpFracE4(f)) \div 1000000

\* floor of the square root
RECURSIVE IsqrtIter(_, _, _)
IsqrtIter(n, lo, hi) ==
  IF lo >= hi THEN lo
  ELSE LET mid == (lo + hi + 1) \div 2
       IN  IF mid * mid <= n THEN IsqrtIter(n, mid, hi) ELSE IsqrtIter(n, lo, mid - 1)

Isqrt(n) == IsqrtIter(n, 0, 46340)

\* ------------------------------------------- convolution.Gaussian2DKernel
\* math.ceil(p/q) for q > 0
Ceil(p, q) == 0 - ((0 - p) \div q)

\* FwhmToSigmaE4 as 2 sqrt(2 ln 2) = sqrt(8 ln 2) = 2.354820045, from
\* 8 ln 2 = 5.54517744
FwhmToSigmaExactE4 == Isqrt(554517744)

\* the constant of stddev = fwhm/2.35, in units of 1e-4
FwhmToSigmaE4 == 23500

Abs(v) == IF v < 0 THEN 0 - v ELSE v

\* KernelSize of the magnitude of the width
KernelSizeAbs(k, fwhm) ==
  LET i == Ceil(80000 * Abs(fwhm), k)
  IN  IF i % 2 = 0 THEN i + 1 ELSE i

\* the size of Gaussian2DKernel(stddev, factor=1) for stddev = fwhm/(k/10000):
\* _round_up_to_odd_integer(8 * stddev)
KernelSize(k, fwhm) ==
  LET i == Ceil(80000 * fwhm, k)
  IN  IF i % 2 = 0 THEN i + 1 ELSE i

\* the kernel is evaluated at the pixel offsets -KernelHalf..KernelHalf
KernelHalf(k, fwhm) == (KernelSize(k, fwhm) - 1) \div 2

\* the Gaussian profile along one axis at pixel offset d, in units of 1e-3:
\* exp(-d^2 / (2 stddev^2)) with stddev = fwhm/(k/10000)
Gauss1(k, fwhm, d) == ExpNegE3(d * d * ((k * k) \div 10000), 2 * fwhm * fwhm)

\* the profile at the offsets 0..KernelHalf
GaussProfile(k, fwhm) == [d \in 0..KernelHalf(k, fwhm) |-> Gauss1(k, fwhm, d)]

\* Kernel.normalize(): the sum of the unnormalised 2D kernel
\* exp(-(dx^2+dy^2)/(2 stddev^2)), in units of 1e-6
RECURSIVE ProfileSum(_, _)
ProfileSum(g, d) == IF d = 0 THEN g[0] ELSE 2 * g[d] + ProfileSum(g, d - 1)

KernelSum(k, fwhm) ==
  LET g == GaussProfile(k, fwhm)
      s == ProfileSum(g, KernelHalf(k, fwhm))
  IN  s * s

\* ----------------------------------------------------- convolution.convolve
\* the sum of the profile g over the offsets lo..hi
RECURSIVE ProfileTail(_, _, _)
ProfileTail(g, lo, hi) == IF lo > hi THEN 0 ELSE g[lo] + ProfileTail(g, lo + 1, hi)

\* AxisWeight with boundary='extend': the neighbours beyond the grid take the
\* value of the nearest cell of the grid
AxisWeightExtend(g, h, n, p, q) ==
  (IF Abs(q - p) <= h THEN g[Abs(q - p)] ELSE 0)
    + (IF q = 1 THEN ProfileTail(g, p, h) ELSE 0)
    + (IF q = n THEN ProfileTail(g, n - p + 1, h) ELSE 0)

\* the weight, along one axis of n cells, with which cell q of the grid enters
\* the convolution at cell p: with boundary='fill', fill_value=0.0 (the
\* defaults of convolve) a neighbour beyond the grid counts 0, so that cell q
\* has the weight of its own offset only
AxisWeight(g, h, n, p, q) == IF Abs(q - p) <= h THEN g[Abs(q - p)] ELSE 0

\* AxisWeight with boundary='wrap': the grid is repeated periodically
AxisWeightWrap(g, h, n, p, q) ==
  SumSeq([i \in 1..(2 * h + 1) |->
            IF (p + (i - h - 1) - q) % n = 0 THEN g[Abs(i - h - 1)] ELSE 0])

\* the axis weight under the boundary option of convolve
BoundaryWeight(boundary, g, h, n, p, q) ==
  CASE boundary = "fill" -> AxisWeight(g, h, n, p, q)
    [] boundary = "extend" -> AxisWeightExtend(g, h, n, p, q)
    [] boundary = "wrap" -> AxisWeightWrap(g, h, n, p, q)

\* the sum over the cells of hist[cell] times its row and column weights
RECURSIVE WeightedSum(_, _, _, _)
WeightedSum(hist, rowW, colW, cells) ==
  IF cells = {} THEN 0
  ELSE LET p == CHOOSE q \in cells : TRUE
       IN  hist[p[1]][p[2]] * rowW[p[1]] * colW[p[2]]
             + WeightedSum(hist, rowW, colW, cells \ {p})

\* convolve(hist, Gaussian2DKernel(fwhm/(k/10000))) with normalize_kernel=True
\* and the given boundary option. The result is in units of 1/FScale counts.
ConvolveWith(k, boundary, hist, fwhm) ==
  LET nrows == Len(hist)
      ncols == Len(hist[1])
      g == GaussProfile(k, fwhm)
      h == KernelHalf(k, fwhm)
      norm == KernelSum(k, fwhm) \div FScale
      occupied == {p \in (1..nrows) \X (1..ncols) : hist[p[1]][p[2]] # 0}
  IN  [r \in 1..nrows |-> [c \in 1..ncols |->
         WeightedSum(hist, [q \in 1..nrows |-> BoundaryWeight(boundary, g, h, nrows, r, q)],
                           [q \in 1..ncols |-> BoundaryWeight(boundary, g, h, ncols, c, q)], occupied) \div norm]]

\* convolution.convolve(raw_hist, kernel) as dwarf_filter calls it
Convolve(hist, fwhm) == ConvolveWith(FwhmToSigmaE4, "fill", hist, fwhm)

\* Subtract with the operands exchanged
SubtractReversed(a, b) == [r \in 1..Len(a) |-> [c \in 1..Len(a[1]) |-> b[r][c] - a[r][c]]]

\* Subtract giving the magnitude of the difference
SubtractMagnitude(a, b) == [r \in 1..Len(a) |-> [c \in 1..Len(a[1]) |-> Abs(a[r][c] - b[r][c])]]

\* conv_small - conv_big
Subtract(a, b) == [r \in 1..Len(a) |-> [c \in 1..Len(a[1]) |-> a[r][c] - b[r][c]]]

\* ------------------------------------------------------- np.mean, np.std
\* np.mean of a flat sequence of values
MeanSeq(s) == RoundDiv(SumSeq(s), Len(s))

\* np.std (population standard deviation, ddof = 0) of a flat sequence
StdSeq(s) ==
  LET mu == MeanSeq(s)
      sq == [i \in 1..Len(s) |-> (s[i] - mu) * (s[i] - mu)]
  IN  Isqrt(SumSeq(sq) \div Len(s))

\* Std with the sample correction (ddof = 1)
StdSample(field) ==
  LET s == Flatten(field)
      mu == MeanSeq(s)
      sq == [i \in 1..Len(s) |-> (s[i] - mu) * (s[i] - mu)]
  IN  IF Len(s) = 1 THEN NaN ELSE Isqrt(SumSeq(sq) \div (Len(s) - 1))

Mean(field) == MeanSeq(Flatten(field))
Std(field) == StdSeq(Flatten(field))

\* Clip with the floor at zero
ClipAtZero(field, floor) ==
  [r \in 1..Len(field) |-> [c \in 1..Len(field[1]) |->
     IF field[r][c] < 0 THEN 0 ELSE field[r][c]]]

\* clipped = delta.copy(); clipped[delta < floor] = floor
Clip(field, floor) ==
  [r \in 1..Len(field) |-> [c \in 1..Len(field[1]) |->
     IF field[r][c] < floor THEN floor ELSE field[r][c]]]

\* CopyThenClip without the copy: clipped = delta names the same array, and
\* the assignment through clipped shows in delta
ClipInPlace(field, floor) ==
  [delta |-> Clip(field, floor), clipped |-> Clip(field, floor)]

\* clipped = delta.copy(); clipped[delta < floor] = floor: the two arrays that
\* the names delta and clipped refer to after the statements. The assignment
\* goes to the copy.
CopyThenClip(field, floor) ==
  [delta |-> field, clipped |-> Clip(field, floor)]

\* ------------------------------------------------------------ dwarf_filter
\* the steps of dwarf_filter, in program order
StepNames == <<"extent", "histogram", "kernel_small", "kernel_big", "conv_big", "conv_small", "stats", "clip">>

\* the steps completed before the step named s
StepsBefore(s) ==
  LET i == CHOOSE j \in 1..Len(StepNames) : StepNames[j] = s
  IN  SubSeq(StepNames, 1, i - 1)

\* what a call that raises leaves behind
Raised(e, at) ==
  [err |-> e, errAt |-> at, steps |-> StepsBefore(at),
   raw |-> <<>>, extent |-> <<>>, delta |-> <<>>, clipped |-> <<>>, sigma |-> 0]

\* HistogramRejects without the look at the single values
HistogramRejectsBlind(x, y) ==
  \/ Len(x) # Len(y)
  \/ ~IsFinite(SeriesMin(x)) \/ ~IsFinite(SeriesMax(x))
  \/ ~IsFinite(SeriesMin(y)) \/ ~IsFinite(SeriesMax(y))
  \/ BinsX(x, y) < 1
  \/ BinsY(y) < 1

\* np.histogram2d(x, y, (nx, ny)) raises ValueError when the lengths differ,
\* when a bin number is not positive or when the range of the data is not
\* finite. np.rint(nan or inf).astype('int') is whatever the platform's float
\* to int conversion gives: the most negative integer (no positive number of
\* bins) or the largest one (then the range of the data is not finite); the
\* call is rejected in both cases.
HistogramRejects(x, y) ==
  \/ Len(x) # Len(y)
  \/ \E k \in 1..Len(x) : ~IsFinite(x[k])
  \/ \E k \in 1..Len(y) : ~IsFinite(y[k])
  \/ ~IsFinite(SeriesMin(x)) \/ ~IsFinite(SeriesMax(x))
  \/ ~IsFinite(SeriesMin(y)) \/ ~IsFinite(SeriesMax(y))
  \/ BinsX(x, y) < 1
  \/ BinsY(y) < 1

\* the statements after the histogram: kernels, convolutions, statistics, clip.
\* Gaussian2DKernel(0.0) divides by zero in the amplitude 1/(2 pi stddev^2);
\* a negative stddev gives a kernel size below 1, an empty kernel array, which
\* convolve refuses (the kernel size must be odd in all axes).
FilterHistogram(raw_hist, extent, fwhm_small, fwhm_big) ==
  IF fwhm_small = 0 THEN Raised("ZeroDivisionError", "kernel_small")
  ELSE IF fwhm_big = 0 THEN Raised("ZeroDivisionError", "kernel_big")
  ELSE IF KernelSize(FwhmToSigmaE4, fwhm_big) < 1 THEN Raised("KernelSizeError", "conv_big")
  ELSE IF KernelSize(FwhmToSigmaE4, fwhm_small) < 1 THEN Raised("KernelSizeError", "conv_small")
  ELSE
    LET conv_big == Convolve(raw_hist, fwhm_big)
        conv_small == Convolve(raw_hist, fwhm_small)
        conv_delta == Subtract(conv_small, conv_big)
        mean == Mean(conv_delta)
        sigma == Std(conv_delta)
        floor == mean
        fields == CopyThenClip(conv_delta, floor)
    IN  [err |-> "none", errAt |-> "none", steps |-> StepNames,
         raw |-> raw_hist, extent |-> extent, delta |-> fields.delta,
         clipped |-> fields.clipped, sigma |-> sigma]

DwarfFilterFn(x, y, fwhm_small, fwhm_big) ==
  IF HistogramRejects(x, y) THEN Raised("ValueError", "histogram")
  ELSE
    LET nx == BinsX(x, y)
        ny == BinsY(y)
        h == Histogram2d(x, y, nx, ny)
        extent == <<h.xedges[1], h.xedges[nx + 1], h.yedges[1], h.yedges[ny + 1]>>
        raw_hist == Transpose(h.Counts, nx, ny)
    IN  FilterHistogram(raw_hist, extent, fwhm_small, fwhm_big)

\* ------------------------------------------------ stats.sigma_clipped_stats
RECURSIVE Insert(_, _)
Insert(v, s) ==
  IF s = <<>> THEN <<v>>
  ELSE IF v <= Head(s) THEN <<v>> \o s
  ELSE <<Head(s)>> \o Insert(v, Tail(s))

RECURSIVE Sorted(_)
Sorted(s) == IF s = <<>> THEN <<>> ELSE Insert(Head(s), Sorted(Tail(s)))

\* np.median: the middle value, or the mean of the two middle values
Median(s) ==
  LET t == Sorted(s)
      n == Len(t)
  IN  IF n % 2 = 1 THEN t[(n + 1) \div 2] ELSE (t[n \div 2] + t[(n \div 2) + 1]) \div 2

\* one iteration of SigmaClip: keep the values within nsigma standard
\* deviations of the median
ClipOnce(s, nsigma) ==
  LET lo == Median(s) - nsigma * StdSeq(s)
      hi == Median(s) + nsigma * StdSeq(s)
  IN  SelectSeq(s, LAMBDA v : v >= lo /\ v <= hi)

\* iterate until nothing is rejected, at most iters times
RECURSIVE SigmaClip(_, _, _)
SigmaClip(s, nsigma, iters) ==
  IF iters = 0 THEN s
  ELSE LET t == ClipOnce(s, nsigma)
       IN  IF Len(t) = Len(s) THEN s ELSE SigmaClip(t, nsigma, iters - 1)

\* mean, median, std = stats.sigma_clipped_stats(data, sigma, maxiters)
SigmaClippedStats(field, nsigma, maxiters) ==
  LET kept == SigmaClip(Flatten(field), nsigma, maxiters)
  IN  [mean |-> MeanSeq(kept), median |-> Median(kept), std |-> StdSeq(kept)]

\* ------------------------------------------------------ photutils.find_peaks
\* MaximumFilter over the cells of the grid only, without the padding
MaximumFilterUnpadded(data, size, r, c) ==
  LET lo == 0 - (size \div 2)
      hi == size - 1 - (size \div 2)
      rows == {q \in 1..Len(data) : q - r >= lo /\ q - r <= hi}
      cols == {q \in 1..Len(data[1]) : q - c >= lo /\ q - c <= hi}
  IN  SetMax({data[p[1]][p[2]] : p \in rows \X cols})

\* scipy.ndimage.maximum_filter(data, size, mode='constant', cval=0.0) at
\* cell (r, c): the window of side size covers the offsets
\* -(size // 2) .. size - 1 - (size // 2); cells outside the grid count 0
MaximumFilter(data, size, r, c) ==
  LET lo == 0 - (size \div 2)
      hi == size - 1 - (size \div 2)
      rows == {q \in 1..Len(data) : q - r >= lo /\ q - r <= hi}
      cols == {q \in 1..Len(data[1]) : q - c >= lo /\ q - c <= hi}
      inside == {data[p[1]][p[2]] : p \in rows \X cols}
      padded == r + lo < 1 \/ r + hi > Len(data) \/ c + lo < 1 \/ c + hi > Len(data[1])
  IN  SetMax(inside \cup (IF padded THEN {0} ELSE {}))

\* PeakRow with 1-based pixel indices
PeakRowOneBased(data, r, c) == [x_peak |-> c, y_peak |-> r, peak_value |-> data[r][c]]

\* the table row of the peak at row r, column c (1-based): x_peak and y_peak
\* are the 0-based column and row indices
PeakRow(data, r, c) == [x_peak |-> c - 1, y_peak |-> r - 1, peak_value |-> data[r][c]]

\* the cells (row-major) that equal the maximum of their window and exceed
\* the threshold
RECURSIVE PeakRows(_, _, _, _)
PeakRows(data, threshold, box_size, k) ==
  LET ncols == Len(data[1])
      r == ((k - 1) \div ncols) + 1
      c == ((k - 1) % ncols) + 1
  IN  IF k > Len(data) * ncols THEN <<>>
      ELSE (IF data[r][c] = MaximumFilter(data, box_size, r, c) /\ data[r][c] > threshold
            THEN <<PeakRow(data, r, c)>>
            ELSE <<>>) \o PeakRows(data, threshold, box_size, k + 1)

\* FindPeaks keeping, of the peaks of equal value, only the first in row-major
\* order
FindPeaksFirstOfTies(data, threshold, box_size) ==
  LET rows == PeakRows(data, threshold, box_size, 1)
      kept == {i \in 1..Len(rows) : \A j \in 1..(i - 1) : rows[j].peak_value # rows[i].peak_value}
      Pick(n) == CHOOSE i \in kept : Cardinality({j \in kept : j < i}) = n - 1
  IN  IF rows = <<>> THEN [kind |-> "None", rows |-> <<>>]
      ELSE [kind |-> "Table", rows |-> [n \in 1..Cardinality(kept) |-> rows[Pick(n)]]]

\* find_peaks returns None for constant data and when no peak is found
FindPeaks(data, threshold, box_size) ==
  LET flat == Flatten(data)
      rows == PeakRows(data, threshold, box_size, 1)
  IN  IF \A i \in 1..Len(flat) : flat[i] = flat[1] THEN [kind |-> "None", rows |-> <<>>]
      ELSE IF rows = <<>> THEN [kind |-> "None", rows |-> <<>>]
      ELSE [kind |-> "Table", rows |-> rows]

\* ----------------------------------------------------------------- np.arange
\* np.arange(start, stop, step): ceil((stop - start)/step) values, 0-based
Arange(start, stop, step) ==
  [i \in 0..(Ceil(stop - start, step) - 1) |-> start + i * step]

\* Shape1 taking the other axis
Shape1Swapped(field) == Len(field)

\* Shape0 taking the other axis
Shape0Swapped(field) == Len(field[1])

\* clipped.shape[1] (RA bins) and clipped.shape[0] (Dec bins)
Shape1(field) == Len(field[1])
Shape0(field) == Len(field)

\* the cell that finds the peaks and attaches their positions
PeaksCell(field, extent, small) ==
  LET st == SigmaClippedStats(field, 3, 5)
      found == FindPeaks(field, st.median + 10 * FScale, small * 2)
      xstep == (extent[2] - extent[1]) \div Shape1(field)
      xvec == Arange(extent[1], extent[2] + xstep, xstep)
      ystep == (extent[4] - extent[3]) \div Shape0(field)
      yvec == Arange(extent[3], extent[4] + ystep, ystep)
  IN  IF found.kind = "None"
      THEN [err |-> "TypeError", tbl |-> found]
      ELSE IF \E i \in 1..Len(found.rows) :
                \/ found.rows[i].x_peak \notin DOMAIN xvec
                \/ found.rows[i].y_peak \notin DOMAIN yvec
      THEN [err |-> "IndexError", tbl |-> found]
      ELSE [err |-> "none",
            tbl |-> [kind |-> "Table",
                     rows |-> [i \in 1..Len(found.rows) |->
                       [x_peak |-> found.rows[i].x_peak,
                        y_peak |-> found.rows[i].y_peak,
                        peak_value |-> found.rows[i].peak_value,
                        ra |-> xvec[found.rows[i].x_peak],
                        dec |-> yvec[found.rows[i].y_peak]]]]]

\* ------------------------------------------------- the image search (SIA)
\* np.nonzero of a boolean mask: the positions (from 1) where it is True, in
\* order. A row of the search result is known by its position, which stands
\* for its access_url as well.
RECURSIVE Where(_, _)
Where(mask, i) ==
  IF i > Len(mask) THEN <<>>
  ELSE (IF mask[i] THEN <<i>> ELSE <<>>) \o Where(mask, i + 1)

\* AsFloat reading the digits as a fraction: the order of the values is the
\* order of the texts
AsFloatLeftAligned(text) ==
  IF text = <<>> THEN 0
  ELSE SumSeq([i \in 1..Len(text) |-> text[i] * (IF i = 1 THEN 100 ELSE IF i = 2 THEN 10 ELSE 1)])

\* .astype('float') of one value of the exptime column, a text of decimal
\* digits
RECURSIVE AsFloat(_)
AsFloat(text) ==
  IF text = <<>> THEN 0
  ELSE 10 * AsFloat(SubSeq(text, 1, Len(text) - 1)) + text[Len(text)]

\* np.argmax: the position (from 1) of the first greatest value; an empty
\* array raises ValueError
ArgMax(vals) ==
  IF vals = <<>> THEN 0
  ELSE CHOOSE i \in 1..Len(vals) :
         /\ \A j \in 1..Len(vals) : vals[j] <= vals[i]
         /\ \A j \in 1..(i - 1) : vals[j] < vals[i]

\* Table['exptime'].data.data.astype('float') of the selected rows
Exptimes(tab, Table) == [i \in 1..Len(Table) |-> AsFloat(tab[Table[i]].exptime)]

\* download_deep_stack: sel = (obs_bandpass == band) & ((proctype == 'Stack')
\* & (prodtype == 'image')); Table = imgTable[sel]
SelDeepStack(tab, band) ==
  Where([i \in 1..Len(tab) |->
           /\ tab[i].obs_bandpass = band
           /\ tab[i].proctype = "Stack" /\ tab[i].prodtype = "image"], 1)

NoImage == [kind |-> "None", url |-> 0]

\* io.fits.getdata(utils.data.download_file(url, ...)): the image is known by
\* the url it was fetched from
GetData(url) == [kind |-> "image", url |-> url]

\* the body of download_deep_stack on the search result tab
DeepStack(tab, band) ==
  LET Table == SelDeepStack(tab, band)
  IN  IF Len(Table) > 0
      THEN LET row == Table[ArgMax(Exptimes(tab, Table))]
           IN  [image |-> GetData(row), fetched |-> <<row>>]
      ELSE [image |-> NoImage, fetched |-> <<>>]

\* SelDeepest without the band in the selection
SelDeepestAnyBand(tab, band) ==
  Where([i \in 1..Len(tab) |-> tab[i].proctype = "Stack" /\ tab[i].prodtype = "image"], 1)

\* download_deepest_images: sel = sel0 & (obs_bandpass == band) with
\* sel0 = (proctype == 'Stack') & (prodtype == 'image'); Table = imgTable[sel]
SelDeepest(tab, band) ==
  Where([i \in 1..Len(tab) |->
           /\ tab[i].proctype = "Stack" /\ tab[i].prodtype = "image"
           /\ tab[i].obs_bandpass = band], 1)

\* the loop of download_deepest_images over the bands from position b on,
\* with the images appended and the urls fetched so far: np.argmax of an
\* empty selection raises and ends the call
RECURSIVE DeepestLoop(_, _, _, _, _)
DeepestLoop(tab, bands, b, images, fetched) ==
  IF b > Len(bands) THEN [err |-> "none", images |-> images, fetched |-> fetched]
  ELSE LET Table == SelDeepest(tab, bands[b])
       IN  IF Table = <<>>
           THEN [err |-> "ValueError", images |-> images, fetched |-> fetched]
           ELSE LET row == Table[ArgMax(Exptimes(tab, Table))]
                IN  DeepestLoop(tab, bands, b + 1, Append(images, GetData(row)),
                                Append(fetched, row))

\* the body of download_deepest_images on the search result tab
DeepestImages(tab, bands) == DeepestLoop(tab, bands, 1, <<>>, <<>>)

\* ------------------------------------------------------ rational numbers
\* the values of the spectra are fractions <<numerator, denominator>> in
\* lowest terms with a positive denominator
RECURSIVE GCD(_, _)
GCD(a, b) == IF b = 0 THEN a ELSE GCD(b, a % b)

QNorm(n, d) ==
  LET g == GCD(Abs(n), Abs(d))
      sgn == IF d < 0 THEN 0 - 1 ELSE 1
  IN  <<(sgn * n) \div g, (sgn * d) \div g>>

QAdd(a, b) == QNorm(a[1] * b[2] + b[1] * a[2], a[2] * b[2])
QMul(a, b) == QNorm(a[1] * b[1], a[2] * b[2])
QDiv(a, b) == QNorm(a[1] * b[2], a[2] * b[1])
QOne == <<1, 1>>

\* --------------------------------------------------- get_restframe_spectra
\* RestIvar dividing by 1+z once
RestIvarLinear(ivar, z) == [i \in 1..Len(ivar) |-> QDiv(ivar[i], QAdd(QOne, z))]

\* wavelength/(1+z), flux*(1+z), ivar/((1+z)**2): new arrays
RestWavelength(wavelength, z) ==
  [i \in 1..Len(wavelength) |-> QDiv(wavelength[i], QAdd(QOne, z))]
RestFlux(flux, z) == [i \in 1..Len(flux) |-> QMul(flux[i], QAdd(QOne, z))]
RestIvar(ivar, z) ==
  [i \in 1..Len(ivar) |-> QDiv(ivar[i], QMul(QAdd(QOne, z), QAdd(QOne, z)))]

\* the body of get_restframe_spectra: the tuple returned, and the record as
\* the call leaves it
GetRestframeSpectraFn(rec, z, rest_frame) ==
  IF rest_frame = TRUE
  THEN [kind |-> "tuple", wavelength |-> RestWavelength(rec.wavelength, z),
        flux |-> RestFlux(rec.flux, z), ivar |-> RestIvar(rec.ivar, z)]
  ELSE [kind |-> "tuple", wavelength |-> rec.wavelength, flux |-> rec.flux,
        ivar |-> rec.ivar]

\* ------------------------------------------------ removal of the duplicates
\* np.unique(ids, return_counts=True): the sorted distinct values and the
\* number of times each occurs
Unique(ids) ==
  [i \in 1..Cardinality(Range(ids)) |->
     CHOOSE v \in Range(ids) : Cardinality({u \in Range(ids) : u < v}) = i - 1]

NCounts(ids, unique) ==
  [i \in 1..Len(unique) |-> Cardinality({k \in 1..Len(ids) : ids[k] = unique[i]})]

\* sdss_ids_unique[n_counts > 1]
Repeated(ids) ==
  LET unique == Unique(ids)
      n_counts == NCounts(ids, unique)
      at == Where([i \in 1..Len(unique) |-> n_counts[i] > 1], 1)
  IN  [i \in 1..Len(at) |-> unique[at[i]]]

\* the ways t_comb[~(ids == sdss_id_repeated)] can go for arrays of n and k
\* elements. When the shapes broadcast (n = k, n = 1 or k = 1) the comparison
\* gives an array of booleans; it has the length of the table unless n = 1 and
\* k = 0, when it is empty, and an empty index selects no row or raises
\* IndexError (a mask of the wrong length), by the version of the table
\* package. When the shapes do not broadcast numpy from 1.25 on raises
\* ValueError and the earlier versions warn and give the single value False.
EqOutcomes(n, k) ==
  IF n = k \/ k = 1 THEN {"array"}
  ELSE IF n = 1 THEN {"EmptyIndexNoRows", "EmptyIndexError"}
  ELSE {"ValueError", "False"}

\* ids == sdss_id_repeated for shapes that broadcast: the array of the
\* elementwise comparisons, of the broadcast length
EqArray(ids, repeated) ==
  IF Len(repeated) = 1 THEN [i \in 1..Len(ids) |-> ids[i] = repeated[1]]
  ELSE IF Len(ids) = 1 THEN [j \in 1..Len(repeated) |-> ids[1] = repeated[j]]
  ELSE [i \in 1..Len(ids) |-> ids[i] = repeated[i]]

\* t_comb[~(t_comb['specid_sdss'].data == sdss_id_repeated)] under the
\* outcome o. ~False is the integer -1, and t_comb[-1] is the last row of the
\* table.
RemoveRepeated(t, o) ==
  LET ids == [i \in 1..Len(t) |-> t[i].specid_sdss]
      repeated == Repeated(ids)
  IN  CASE o = "ValueError" -> [err |-> "ValueError", kind |-> "unbound", rows |-> <<>>]
        [] o = "EmptyIndexError" -> [err |-> "IndexError", kind |-> "unbound", rows |-> <<>>]
        [] o = "EmptyIndexNoRows" -> [err |-> "none", kind |-> "Table", rows |-> <<>>]
        [] o = "False" -> [err |-> "none", kind |-> "Row", rows |-> <<t[Len(t)]>>]
        [] o = "array" ->
             LET eq == EqArray(ids, repeated)
                 keep == Where([i \in 1..Len(eq) |-> ~eq[i]], 1)
             IN  [err |-> "none", kind |-> "Table",
                  rows |-> [i \in 1..Len(keep) |-> t[keep[i]]]]

\* ---------------------------------------------------------------- the state
VARIABLES
  ra, dec,          \* R['ra'], R['dec']: the position columns of the query result
  small_k, big_k,   \* the kernel widths of the run cell
  raw, extent, delta, clipped, dsigma,   \* what dwarf_filter returned
  tbl,              \* the table of peaks
  err, errAt,       \* the exception that stopped the notebook, and where
  steps,            \* the steps of dwarf_filter completed by the last call
  pc,               \* "loaded", "filtered", "found" or "error"
  ncalls,           \* number of calls of dwarf_filter made so far
  seen,             \* the calls made so far: widths, number and outcome of the
                    \* first call with each pair of widths
  imgTable,         \* svc.search(...).to_table(): the rows of the image search
  band, bands,      \* the band(s) asked of download_deep_stack / download_deepest_images
  image, images,    \* what the two download functions returned
  fetched,          \* the urls passed to download_file, in order
  imgErr, imgPc,    \* the exception of the download call; "searched", "returned" or "raised"
  sparcl_rec,       \* the SPARCL record: wavelength, flux and ivar of each pixel
  z, rest_frame,    \* the arguments of get_restframe_spectra
  spectra,          \* the tuple it returned
  t_comb,           \* the rows of the combined DESI/SDSS table
  t_comb_unique,    \* the result of the removal of the duplicates
  xmErr             \* the exception of the removal cell

dwarfvars == <<ra, dec, small_k, big_k, raw, extent, delta, clipped, dsigma, tbl, err, errAt, steps, pc, ncalls, seen>>
imgvars == <<imgTable, band, bands, image, images, fetched, imgErr, imgPc>>
specvars == <<sparcl_rec, z, rest_frame, spectra>>
matchvars == <<t_comb, t_comb_unique, xmErr>>

vars == <<dwarfvars, imgvars, specvars, matchvars>>

\* the other notebooks before any of their cells has run: no search result,
\* no record, no table
NoDownloads ==
  /\ imgTable = <<>> /\ band = "" /\ bands = <<>>
  /\ image = [kind |-> "unbound", url |-> 0] /\ images = [kind |-> "unbound", list |-> <<>>]
  /\ fetched = <<>> /\ imgErr = "none" /\ imgPc = "idle"

NoSpectra ==
  /\ sparcl_rec = [wavelength |-> <<>>, flux |-> <<>>, ivar |-> <<>>]
  /\ z = <<0, 1>> /\ rest_frame = TRUE
  /\ spectra = [kind |-> "unbound", wavelength |-> <<>>, flux |-> <<>>, ivar |-> <<>>]

NoMatch ==
  /\ t_comb = <<>>
  /\ t_comb_unique = [kind |-> "unbound", rows |-> <<>>]
  /\ xmErr = "none"

\* the dwarf-galaxy notebook before the run cell
NoFilter ==
  /\ ra = <<>> /\ dec = <<>>
  /\ small_k = 2 /\ big_k = 20
  /\ raw = <<>> /\ extent = <<>> /\ delta = <<>> /\ clipped = <<>> /\ dsigma = 0
  /\ tbl = [kind |-> "unbound", rows |-> <<>>]
  /\ err = "none" /\ errAt = "none" /\ steps = <<>>
  /\ pc = "idle"
  /\ ncalls = 0 /\ seen = {}

\* a drawn position, repeated n times in the arrays
Runs == [ra : RAVals, dec : DecVals, n : {1, Cluster}]

\* the positions are drawn in non-decreasing order of (ra, dec, n)
RunKey(r) == r.ra * 1000000 + (r.dec - DecBase) * 1000 + r.n

RECURSIVE RunSeqs(_)
RunSeqs(n) ==
  IF n = 0 THEN {<<>>}
  ELSE RunSeqs(n - 1) \cup
       {Append(s, r) : s \in {t \in RunSeqs(n - 1) : Len(t) = n - 1},
                       r \in Runs}

Grouped(rs) == \A i \in 1..(Len(rs) - 1) : RunKey(rs[i]) <= RunKey(rs[i + 1])

RECURSIVE Column(_, _)
Column(rs, f) ==
  IF rs = <<>> THEN <<>> ELSE Repeat(Head(rs)[f], Head(rs).n) \o Column(Tail(rs), f)

\* the ways the arrays are malformed: ra one element longer than dec, a NaN
\* right ascension, an infinite declination
Flaws == {"none", "longer", "nan", "inf"}

Init ==
  /\ \E rs \in {t \in RunSeqs(MaxRuns) : Grouped(t)}, flaw \in Flaws :
       /\ ra = Column(rs, "ra") \o (CASE flaw = "longer" -> <<0>>
                                      [] flaw = "nan" -> <<NaN>>
                                      [] flaw = "inf" -> <<0>>
                                      [] OTHER -> <<>>)
       /\ dec = Column(rs, "dec") \o (CASE flaw = "nan" -> <<DecBase>>
                                        [] flaw = "inf" -> <<Inf>>
                                        [] OTHER -> <<>>)
  /\ small_k = 2 /\ big_k = 20
  /\ raw = <<>> /\ extent = <<>> /\ delta = <<>> /\ clipped = <<>> /\ dsigma = 0
  /\ tbl = [kind |-> "unbound", rows |-> <<>>]
  /\ err = "none" /\ errAt = "none" /\ steps = <<>>
  /\ pc = "loaded"
  /\ ncalls = 0 /\ seen = {}
  /\ NoDownloads /\ NoSpectra /\ NoMatch

\* Evaluate with a histogram that is kept between the calls and added to
EvaluateAccumulating(fs, fb) ==
  LET res == DwarfFilterFn(ra, dec, fs, fb)
  IN  IF res.err = "none" /\ raw # <<>>
      THEN [res EXCEPT !.raw = [r \in 1..Len(raw) |-> [c \in 1..Len(raw[1]) |->
                                  res.raw[r][c] + raw[r][c]]]]
      ELSE res

\* dwarf_filter(R['ra'], R['dec'], fwhm_small=fs, fwhm_big=fb) in the current
\* state of the notebook: the function reads its arguments only
Evaluate(fs, fb) == DwarfFilterFn(ra, dec, fs, fb)

\* Unpack binding whatever the call left behind, raised or not
UnpackAlways(res) == <<res.raw, res.extent, res.delta, res.clipped, res.sigma>>

\* raw, extent, delta, clipped, dsigma = <the call>: the five names are bound
\* together when the call returns and not at all when it raises
Unpack(res) ==
  IF res.err = "none"
  THEN <<res.raw, res.extent, res.delta, res.clipped, res.sigma>>
  ELSE <<raw, extent, delta, clipped, dsigma>>

\* small_k, big_k = fs, fb
\* raw, extent, delta, clipped, dsigma = dwarf_filter(R['ra'], R['dec'], ...)
CallDwarfFilter(fs, fb) ==
  \E res \in {Evaluate(fs, fb)} :
    /\ small_k' = fs /\ big_k' = fb
    /\ steps' = res.steps
    /\ err' = res.err /\ errAt' = res.errAt
    /\ \E bound \in {Unpack(res)} :
         /\ raw' = bound[1] /\ extent' = bound[2] /\ delta' = bound[3]
         /\ clipped' = bound[4] /\ dsigma' = bound[5]
    /\ pc' = IF res.err = "none" THEN "filtered" ELSE "error"
    /\ ncalls' = ncalls + 1
    /\ seen' = IF \E e \in seen : e.widths = <<fs, fb>>
               THEN seen
               ELSE seen \cup {[widths |-> <<fs, fb>>, at |-> ncalls + 1, res |-> res]}

\* the run cell, executed for the first time
RunDwarfFilter ==
  /\ pc = "loaded"
  /\ \E fs \in FwhmVals, fb \in FwhmVals : CallDwarfFilter(fs, fb)
  /\ UNCHANGED <<ra, dec, tbl>>
  /\ UNCHANGED <<imgvars, specvars, matchvars>>

\* the find-peaks cell
FindPeaksCell ==
  /\ pc = "filtered"
  /\ \E res \in {PeaksCell(clipped, extent, small_k)} :
         /\ tbl' = res.tbl
         /\ err' = res.err
         /\ errAt' = IF res.err = "none" THEN "none" ELSE "peaks"
         /\ pc' = IF res.err = "none" THEN "found" ELSE "error"
  /\ UNCHANGED <<ra, dec, small_k, big_k, raw, extent, delta, clipped, dsigma, steps, ncalls, seen>>
  /\ UNCHANGED <<imgvars, specvars, matchvars>>

Next == RunDwarfFilter \/ FindPeaksCell

Spec == Init /\ [][Next]_vars

\* ------------------------------------------- the run cell, executed repeatedly
\* the positions and the widths of the notebook sessions in which the run
\* cell is edited and executed again
CallRAVals == {0, 240}
CallDecVals == {DecBase, DecBase + 180}
CallRuns == {r \in Runs : r.ra \in CallRAVals /\ r.dec \in CallDecVals}
CallWidths == {<<2, 20>>, <<20, 2>>, <<0, 20>>, <<2, 0 - 2>>}

InitCalls ==
  /\ \E rs \in {t \in RunSeqs(MaxRuns) : Grouped(t) /\ Range(t) \subseteq CallRuns} :
       /\ ra = Column(rs, "ra")
       /\ dec = Column(rs, "dec")
  /\ small_k = 2 /\ big_k = 20
  /\ raw = <<>> /\ extent = <<>> /\ delta = <<>> /\ clipped = <<>> /\ dsigma = 0
  /\ tbl = [kind |-> "unbound", rows |-> <<>>]
  /\ err = "none" /\ errAt = "none" /\ steps = <<>>
  /\ pc = "loaded"
  /\ ncalls = 0 /\ seen = {}
  /\ NoDownloads /\ NoSpectra /\ NoMatch

\* the run cell executed, for the first time or again, with the widths w: the
\* cell can be run whether or not its previous execution raised
RunCell ==
  /\ ncalls < MaxCalls
  /\ errAt # "peaks"
  /\ \E w \in CallWidths : CallDwarfFilter(w[1], w[2])
  /\ UNCHANGED <<ra, dec, tbl>>
  /\ UNCHANGED <<imgvars, specvars, matchvars>>

NextCalls == RunCell

SpecCalls == InitCalls /\ [][NextCalls]_vars

\* ------------------------------------------- the run on an even background
\* query results that cover the field evenly: every position of a lattice of
\* right ascensions and declinations, each the same number of times
LatticeRA == {<<0, 70>>, <<0, 140>>}
LatticeDec == {<<DecBase, DecBase + 60>>, <<DecBase, DecBase + 120>>,
               <<DecBase, DecBase + 90, DecBase + 180>>}
LatticeCopies == {1, 5}

Lattice(xs, ys, n) ==
  [i \in 1..(Len(xs) * Len(ys)) |->
     [ra |-> xs[((i - 1) \div Len(ys)) + 1], dec |-> ys[((i - 1) % Len(ys)) + 1], n |-> n]]

InitUniform ==
  /\ \E xs \in LatticeRA, ys \in LatticeDec, n \in LatticeCopies :
       /\ ra = Column(Lattice(xs, ys, n), "ra")
       /\ dec = Column(Lattice(xs, ys, n), "dec")
  /\ small_k = 2 /\ big_k = 20
  /\ raw = <<>> /\ extent = <<>> /\ delta = <<>> /\ clipped = <<>> /\ dsigma = 0
  /\ tbl = [kind |-> "unbound", rows |-> <<>>]
  /\ err = "none" /\ errAt = "none" /\ steps = <<>>
  /\ pc = "loaded"
  /\ ncalls = 0 /\ seen = {}
  /\ NoDownloads /\ NoSpectra /\ NoMatch

SpecUniform == InitUniform /\ [][Next]_vars

\* ------------------------------------------------- the download functions
\* the rows that the image search can return, and the bands asked for
BandVals == {"g", "r"}
ProcTypes == {"Stack", "InstCal"}
ProdTypes == {"image", "dqmask"}
ExptimeVals == {<<9, 0>>, <<3, 0, 0>>}
ImageRows == [obs_bandpass : BandVals, proctype : ProcTypes, prodtype : ProdTypes,
              exptime : ExptimeVals]
AskedBands == {"g", "r", "i"}
AskedBandLists == {<<>>, <<"g">>, <<"g", "r">>, <<"r", "g">>, <<"g", "r", "i">>}

RECURSIVE SeqsUpTo(_, _)
SeqsUpTo(S, n) ==
  IF n = 0 THEN {<<>>}
  ELSE SeqsUpTo(S, n - 1) \cup
       {Append(t, e) : t \in {u \in SeqsUpTo(S, n - 1) : Len(u) = n - 1}, e \in S}

InitImages ==
  /\ imgTable \in SeqsUpTo(ImageRows, MaxRows)
  /\ band = "" /\ bands = <<>>
  /\ image = [kind |-> "unbound", url |-> 0] /\ images = [kind |-> "unbound", list |-> <<>>]
  /\ fetched = <<>> /\ imgErr = "none" /\ imgPc = "searched"
  /\ NoFilter /\ NoSpectra /\ NoMatch

\* image = download_deep_stack(ra, dec, band=b) on the search result imgTable
DownloadDeepStack ==
  /\ imgPc = "searched"
  /\ \E b \in AskedBands :
       \E out \in {DeepStack(imgTable, b)} :
         /\ band' = b
         /\ image' = out.image
         /\ fetched' = fetched \o out.fetched
  /\ imgErr' = "none"
  /\ imgPc' = "returned"
  /\ UNCHANGED <<imgTable, bands, images>>
  /\ UNCHANGED <<dwarfvars, specvars, matchvars>>

\* images = download_deepest_images(ra, dec, bands=bs) on the search result
\* imgTable: a call that raises binds nothing, the files fetched before stay
\* fetched
DownloadDeepestImages ==
  /\ imgPc = "searched"
  /\ \E bs \in AskedBandLists :
       \E out \in {DeepestImages(imgTable, bs)} :
         /\ bands' = bs
         /\ images' = IF out.err = "none" THEN [kind |-> "list", list |-> out.images]
                      ELSE images
         /\ fetched' = fetched \o out.fetched
         /\ imgErr' = out.err
         /\ imgPc' = IF out.err = "none" THEN "returned" ELSE "raised"
  /\ UNCHANGED <<imgTable, band, image>>
  /\ UNCHANGED <<dwarfvars, specvars, matchvars>>

NextImages == DownloadDeepStack \/ DownloadDeepestImages

SpecImages == InitImages /\ [][NextImages]_vars

\* --------------------------------------------------- get_restframe_spectra
\* the pixels of a record and the redshifts (z > -1) of the calls
WavelengthVals == {<<3600, 1>>, <<9824, 1>>}
FluxVals == {<<0 - 1, 2>>, <<0, 1>>, <<3, 1>>}
IvarVals == {<<0, 1>>, <<4, 1>>}
Pixels == [wavelength : WavelengthVals, flux : FluxVals, ivar : IvarVals]
ZVals == {<<0 - 1, 10>>, <<0, 1>>, <<1, 2>>, <<3, 1>>}

InitSpectra ==
  /\ \E px \in SeqsUpTo(Pixels, MaxPixels) :
       sparcl_rec = [wavelength |-> [i \in 1..Len(px) |-> px[i].wavelength],
                     flux |-> [i \in 1..Len(px) |-> px[i].flux],
                     ivar |-> [i \in 1..Len(px) |-> px[i].ivar]]
  /\ z = <<0, 1>> /\ rest_frame = TRUE
  /\ spectra = [kind |-> "unbound", wavelength |-> <<>>, flux |-> <<>>, ivar |-> <<>>]
  /\ NoFilter /\ NoDownloads /\ NoMatch

\* get_restframe_spectra(sparcl_rec, z, rest_frame): the function rebinds its
\* local names and leaves the record alone
GetRestframeSpectra ==
  /\ spectra.kind = "unbound"
  /\ \E zz \in ZVals, rf \in BOOLEAN :
       /\ z' = zz /\ rest_frame' = rf
       /\ spectra' = GetRestframeSpectraFn(sparcl_rec, zz, rf)
  /\ UNCHANGED sparcl_rec
  /\ UNCHANGED <<dwarfvars, imgvars, matchvars>>

NextSpectra == GetRestframeSpectra

SpecSpectra == InitSpectra /\ [][NextSpectra]_vars

\* ------------------------------------------------ removal of the duplicates
\* the SDSS objects matched, each row with its own DESI object
SdssIds == {1, 2, 3}

InitMatch ==
  /\ \E ids \in SeqsUpTo(SdssIds, MaxMatches) :
       t_comb = [i \in 1..Len(ids) |-> [specid_sdss |-> ids[i], specid_desi |-> i]]
  /\ t_comb_unique = [kind |-> "unbound", rows |-> <<>>]
  /\ xmErr = "none"
  /\ NoFilter /\ NoDownloads /\ NoSpectra

\* the cell that removes the SDSS objects matched more than once
RemoveDuplicates ==
  /\ t_comb_unique.kind = "unbound" /\ xmErr = "none"
  /\ \E o \in EqOutcomes(Len(t_comb), Len(Repeated([i \in 1..Len(t_comb) |-> t_comb[i].specid_sdss]))) :
       \E out \in {RemoveRepeated(t_comb, o)} :
         /\ t_comb_unique' = [kind |-> out.kind, rows |-> out.rows]
         /\ xmErr' = out.err
  /\ UNCHANGED t_comb
  /\ UNCHANGED <<dwarfvars, imgvars, specvars>>

NextMatch == RemoveDuplicates

SpecMatch == InitMatch /\ [][NextMatch]_vars

\* ================================================================ properties
\* dwarf_filter has returned: its five results are bound in the notebook
Returned == pc \in {"filtered", "found"} \/ errAt = "peaks"

\* the run cell has been executed
Called == pc # "loaded"

\* the find-peaks cell has been executed
PeaksRan == pc = "found" \/ errAt = "peaks"

NRows == Len(raw)
NCols == Len(raw[1])

\* edge j (0-based) of n equal bins over [lo, hi]
Edge(lo, hi, n, j) == IF j = n THEN hi ELSE lo + ((j * (hi - lo)) \div n)

\* v falls in bin j (1-based) of n equal bins over [lo, hi]: bins are closed on
\* the left and open on the right, except the last one, which is closed
InBin(v, lo, hi, n, j) ==
  /\ Edge(lo, hi, n, j - 1) <= v
  /\ \/ v < Edge(lo, hi, n, j)
     \/ j = n /\ v = hi

RECURSIVE SumGrid(_)
SumGrid(m) == IF m = <<>> THEN 0 ELSE SumSeq(Head(m)) + SumGrid(Tail(m))

\* C1: the histogram dwarf_filter returns counts each input point exactly
\* once: cell (row r, column c) holds the number of (RA, Dec) pairs falling in
\* RA bin c and Dec bin r, points on the maximum edges being counted in the
\* last bin, and the cells sum to the number of input points.
C1_HistogramCountsPoints ==
  Returned =>
    /\ \A r \in 1..NRows, c \in 1..NCols :
         raw[r][c] = Cardinality({k \in 1..Len(ra) :
                        /\ InBin(ra[k], extent[1], extent[2], NCols, c)
                        /\ InBin(dec[k], extent[3], extent[4], NRows, r)})
    /\ SumGrid(raw) = Len(ra)

\* a histogram of at least 2 x 2 bins with a cluster in a cell of the last
\* column, on the maximum RA edge
C1_Witness ==
  /\ Returned
  /\ NRows >= 2 /\ NCols >= 2
  /\ \E r \in 1..NRows : raw[r][NCols] >= 2
  /\ \E k \in 1..Len(ra) : ra[k] = extent[2]

\* C2: the clipped field is the filtered field floored at the filtered
\* field's own mean: a cell below the mean holds the mean, every other cell
\* its filtered value, and no clipped cell is below the mean.
C2_ClippedIsFlooredAtMean ==
  Returned =>
    \A r \in 1..Len(delta), c \in 1..Len(delta[1]) :
      /\ clipped[r][c] = (IF delta[r][c] < Mean(delta) THEN Mean(delta) ELSE delta[r][c])
      /\ clipped[r][c] >= Mean(delta)

\* a filtered field whose mean is positive, with a cell below the mean and a
\* cell above it
C2_Witness ==
  /\ Returned
  /\ Mean(delta) > 0
  /\ \E r \in 1..Len(delta), c \in 1..Len(delta[1]) : delta[r][c] < Mean(delta)
  /\ \E r \in 1..Len(delta), c \in 1..Len(delta[1]) : delta[r][c] > Mean(delta)

\* C3: the filtered field is the small-kernel convolution of the histogram
\* minus its big-kernel convolution, cell by cell, and the histogram, the
\* filtered field and the clipped field all have the shape (Dec bins, RA bins).
C3_FilteredIsDifference ==
  Returned =>
    /\ Len(delta) = NRows /\ Len(clipped) = NRows
    /\ \A r \in 1..NRows : Len(delta[r]) = NCols /\ Len(clipped[r]) = NCols /\ Len(raw[r]) = NCols
    /\ NRows = BinsY(dec) /\ NCols = BinsX(ra, dec)
    /\ \A r \in 1..NRows, c \in 1..NCols :
         delta[r][c] = Convolve(raw, small_k)[r][c] - Convolve(raw, big_k)[r][c]

\* a filtered field that is not zero everywhere, on a grid that is not square
C3_Witness ==
  /\ Returned
  /\ NRows # NCols
  /\ small_k # big_k
  /\ \E r \in 1..NRows, c \in 1..NCols : delta[r][c] # 0

\* the threshold and the box size the find-peaks cell passes to find_peaks
Threshold == SigmaClippedStats(clipped, 3, 5).median + 10 * FScale
BoxSize == small_k * 2

Grid == (1..Len(clipped)) \X (1..Len(clipped[1]))

\* the cells of the grid in the box_size window of cell p
WindowOf(p) ==
  {q \in Grid : /\ q[1] - p[1] >= 0 - (BoxSize \div 2)
                /\ q[1] - p[1] <= BoxSize - 1 - (BoxSize \div 2)
                /\ q[2] - p[2] >= 0 - (BoxSize \div 2)
                /\ q[2] - p[2] <= BoxSize - 1 - (BoxSize \div 2)}

\* the window of p reaches beyond the grid
Overhangs(p) ==
  \/ p[1] - (BoxSize \div 2) < 1 \/ p[1] + BoxSize - 1 - (BoxSize \div 2) > Len(clipped)
  \/ p[2] - (BoxSize \div 2) < 1 \/ p[2] + BoxSize - 1 - (BoxSize \div 2) > Len(clipped[1])

IsWindowMax(p) == \A q \in WindowOf(p) : clipped[q[1]][q[2]] <= clipped[p[1]][p[2]]

\* the cells (row, column), 1-based, of the rows of the table of peaks
PeakCells == {<<tbl.rows[i].y_peak + 1, tbl.rows[i].x_peak + 1>> : i \in 1..Len(tbl.rows)}

\* C4 (as claimed): peak finding returns exactly the cells whose value
\* exceeds the threshold and is the maximum of the box_size window around
\* the cell.
C4_Original ==
  PeaksRan =>
    PeakCells = {p \in Grid : clipped[p[1]][p[2]] > Threshold /\ IsWindowMax(p)}

\* C4: peak finding returns exactly the cells whose value exceeds the
\* threshold and is the maximum of the box_size window around the cell, the
\* part of a window that reaches beyond the field counting as 0.
C4_PeaksAreWindowMaxima ==
  PeaksRan =>
    PeakCells = {p \in Grid : /\ clipped[p[1]][p[2]] > Threshold
                              /\ IsWindowMax(p)
                              /\ Overhangs(p) => clipped[p[1]][p[2]] >= 0}

\* a table with a peak, on a field where another cell also exceeds the
\* threshold without being the maximum of its window
C4_Witness ==
  /\ pc = "found"
  /\ Len(tbl.rows) >= 1
  /\ \E p \in Grid : clipped[p[1]][p[2]] > Threshold /\ ~IsWindowMax(p)

\* C5 (as claimed): when no cell of the field exceeds the threshold, the
\* find-peaks cell completes without error and yields an empty table.
C5_NoPeaksGivesEmptyTable ==
  (PeaksRan /\ \A p \in Grid : clipped[p[1]][p[2]] <= Threshold) =>
    (err = "none" /\ pc = "found" /\ tbl.kind = "Table" /\ tbl.rows = <<>>)

\* C6: the sky position of every peak is lo + i*(hi - lo)/N: RA from the
\* column index x_peak, extent[0], extent[1] and the number of columns, Dec
\* from the row index y_peak, extent[2], extent[3] and the number of rows.
C6_PixelToSky ==
  pc = "found" =>
    \A i \in 1..Len(tbl.rows) :
      /\ tbl.rows[i].ra =
           extent[1] + tbl.rows[i].x_peak * ((extent[2] - extent[1]) \div Len(clipped[1]))
      /\ tbl.rows[i].dec =
           extent[3] + tbl.rows[i].y_peak * ((extent[4] - extent[3]) \div Len(clipped))

\* a peak off the first row and the first column of a grid that is not square
C6_Witness ==
  /\ pc = "found"
  /\ Len(clipped) # Len(clipped[1])
  /\ \E i \in 1..Len(tbl.rows) : tbl.rows[i].x_peak >= 2 /\ tbl.rows[i].y_peak >= 1

\* C7: the pixel indices of every peak lie within the field, the lookup of
\* its RA/Dec in the coordinate vectors never indexes out of range, and the
\* RA and Dec lie within the extent of the histogram.
C7_PeaksWithinBounds ==
  PeaksRan =>
    /\ err # "IndexError"
    /\ \A i \in 1..Len(tbl.rows) :
         /\ tbl.rows[i].x_peak >= 0 /\ tbl.rows[i].x_peak < Len(clipped[1])
         /\ tbl.rows[i].y_peak >= 0 /\ tbl.rows[i].y_peak < Len(clipped)
    /\ pc = "found" =>
         \A i \in 1..Len(tbl.rows) :
           /\ extent[1] <= tbl.rows[i].ra /\ tbl.rows[i].ra <= extent[2]
           /\ extent[3] <= tbl.rows[i].dec /\ tbl.rows[i].dec <= extent[4]

\* a peak in the last column and the last row of the field
C7_Witness ==
  /\ pc = "found"
  /\ Len(clipped) >= 2 /\ Len(clipped[1]) >= 2
  /\ \E i \in 1..Len(tbl.rows) :
       /\ tbl.rows[i].x_peak = Len(clipped[1]) - 1
       /\ tbl.rows[i].y_peak = Len(clipped) - 1

\* the position input is malformed: empty, of unequal lengths, or with a NaN
\* or an Inf in it
Malformed ==
  \/ Len(ra) = 0 \/ Len(dec) = 0
  \/ Len(ra) # Len(dec)
  \/ \E k \in 1..Len(ra) : ~IsFinite(ra[k])
  \/ \E k \in 1..Len(dec) : ~IsFinite(dec[k])

\* nothing of a result is bound in the notebook
NothingReturned == raw = <<>> /\ extent = <<>> /\ delta = <<>> /\ clipped = <<>>

\* C8 (as claimed): malformed position input is rejected with an
\* InvalidInputError before any numerical work.
C8_Original ==
  (Called /\ Malformed) => (err = "InvalidInputError" /\ steps = <<>>)

\* C8: malformed position input (empty, unequal lengths, NaN or Inf) is
\* rejected with the ValueError of np.histogram2d, before the histogram is
\* built and before any convolution; nothing is returned.
C8_MalformedRaisesValueError ==
  (Called /\ Malformed) =>
    /\ pc = "error" /\ err = "ValueError" /\ errAt = "histogram"
    /\ \A i \in 1..Len(steps) : steps[i] \notin {"histogram", "conv_big", "conv_small"}
    /\ NothingReturned

\* a rejected call whose positions span several bins and hold one NaN, with
\* kernel widths that are in order
C8_Witness ==
  /\ pc = "error" /\ err = "ValueError"
  /\ small_k = 2 /\ big_k = 20
  /\ \E k \in 1..Len(ra) : ra[k] = NaN
  /\ Len(ra) = Len(dec)
  /\ SeriesMax(ra) - SeriesMin(ra) >= 100
  /\ SeriesMax(dec) - SeriesMin(dec) >= 180

\* the arcminute extent of an axis rounds to zero bins
ZeroBinCount ==
  \/ 2 * (SeriesMax(dec) - SeriesMin(dec)) <= 60
  \/ 2 * (SeriesMax(ra) - SeriesMin(ra)) * CosE6(SeriesMin(dec) + SeriesMax(dec)) <= 60000000

\* C9 (as claimed): an input whose bin count is zero in either axis is
\* rejected with an InvalidInputError.
C9_Original ==
  (Called /\ ~Malformed /\ ZeroBinCount) => (pc = "error" /\ err = "InvalidInputError")

\* C9: an input whose bin count is zero in either axis (all positions
\* identical, in particular) is rejected with the ValueError of
\* np.histogram2d; no histogram with zero bins in an axis is returned and no
\* 1 x 1 histogram is substituted.
C9_DegenerateRaisesValueError ==
  /\ (Called /\ ~Malformed /\ ZeroBinCount) =>
       (pc = "error" /\ err = "ValueError" /\ errAt = "histogram" /\ NothingReturned)
  /\ Returned => (Len(raw) >= 1 /\ \A r \in 1..Len(raw) : Len(raw[r]) >= 1)

\* a rejected call on several points that all have the same declination but
\* differ in right ascension, with kernel widths that are in order
C9_Witness ==
  /\ pc = "error" /\ err = "ValueError"
  /\ ~Malformed
  /\ small_k = 2 /\ big_k = 20
  /\ Len(ra) >= 2
  /\ SeriesMax(dec) = SeriesMin(dec)
  /\ SeriesMax(ra) - SeriesMin(ra) >= 100

\* a kernel width is zero or negative
NonPositiveWidth == small_k <= 0 \/ big_k <= 0

\* C10 (as claimed): a non-positive kernel width is rejected with an
\* InvalidInputError at validation time, before the histogram is built.
C10_Original ==
  (Called /\ NonPositiveWidth) =>
    /\ pc = "error" /\ err = "InvalidInputError"
    /\ \A i \in 1..Len(steps) : steps[i] # "histogram"

\* C10: a non-positive kernel width is not looked at before the histogram is
\* built: on well-formed positions the histogram is built first and the call
\* then fails inside kernel construction (ZeroDivisionError, zero width) or
\* inside convolution (KernelSizeError, negative width); nothing is returned.
C10_NonPositiveWidthFailsLate ==
  (Called /\ NonPositiveWidth /\ ~Malformed /\ ~ZeroBinCount) =>
    /\ pc = "error"
    /\ \/ err = "ZeroDivisionError" /\ errAt \in {"kernel_small", "kernel_big"}
       \/ err = "KernelSizeError" /\ errAt \in {"conv_big", "conv_small"}
    /\ (small_k = 0 \/ big_k = 0) <=> err = "ZeroDivisionError"
    /\ \E i \in 1..Len(steps) : steps[i] = "histogram"
    /\ NothingReturned

\* a call with a negative small width and a big width in order, on
\* well-formed positions, that failed in the convolution
C10_Witness ==
  /\ pc = "error" /\ err = "KernelSizeError" /\ errAt = "conv_small"
  /\ small_k < 0 /\ big_k > 0
  /\ ~Malformed /\ ~ZeroBinCount

\* the five names the run cell binds, and the five values of an outcome
Five == <<raw, extent, delta, clipped, dsigma>>
FiveOf(res) == <<res.raw, res.extent, res.delta, res.clipped, res.sigma>>
NoneBound == <<<<>>, <<>>, <<>>, <<>>, 0>>

\* a complete result: a histogram of at least one cell, an extent of four
\* numbers, a filtered and a clipped field of the histogram's shape
Complete(five) ==
  /\ Len(five[1]) >= 1 /\ Len(five[1][1]) >= 1
  /\ Len(five[2]) = 4
  /\ Len(five[3]) = Len(five[1]) /\ Len(five[4]) = Len(five[1])
  /\ \A r \in 1..Len(five[1]) :
       /\ Len(five[1][r]) = Len(five[1][1])
       /\ Len(five[3][r]) = Len(five[1][1])
       /\ Len(five[4][r]) = Len(five[1][1])

\* C11: dwarf_filter is all-or-nothing. A call that returns has completed
\* every step and binds a complete five-element result; a call that raises
\* leaves raw, extent, delta, clipped and dsigma as they were before it; and
\* the five names always hold nothing at all or the result of one single call.
C11_AllOrNothing ==
  [][ncalls' = ncalls + 1 =>
        /\ err' = "none" => (pc' = "filtered" /\ steps' = StepNames /\ Complete(Five'))
        /\ err' # "none" => (pc' = "error" /\ Five' = Five)
        /\ \/ Five' = NoneBound
           \/ \E e \in seen' : e.res.err = "none" /\ Five' = FiveOf(e.res)]_vars

\* a call that raised after the histogram was built, made when the five
\* names were bound by an earlier call that returned
C11_Witness ==
  /\ ncalls >= 2
  /\ pc = "error" /\ errAt \in {"kernel_small", "conv_small"}
  /\ \E i \in 1..Len(steps) : steps[i] = "histogram"
  /\ Complete(Five)

SwappedCalls == {p \in seen \X seen : p[1].widths = <<p[2].widths[2], p[2].widths[1]>>}

\* C13: dwarf_filter does not enforce fwhm_small < fwhm_big: when a call
\* returns, the call with the two widths swapped returns too, with the same
\* histogram, the same extent and the same sigma, and its filtered field is
\* the cell by cell negation of the other filtered field.
C13_SwappedWidthsNegate ==
  \A p \in SwappedCalls :
    p[1].res.err = "none" =>
      /\ p[2].res.err = "none"
      /\ p[2].res.raw = p[1].res.raw
      /\ p[2].res.extent = p[1].res.extent
      /\ p[2].res.sigma = p[1].res.sigma
      /\ Len(p[2].res.delta) = Len(p[1].res.delta)
      /\ \A r \in 1..Len(p[1].res.delta) :
           /\ Len(p[2].res.delta[r]) = Len(p[1].res.delta[r])
           /\ \A c \in 1..Len(p[1].res.delta[r]) :
                p[2].res.delta[r][c] = 0 - p[1].res.delta[r][c]

\* a call with fwhm_small > fwhm_big that returned after the call with the
\* widths in order, on a filtered field with positive and negative cells
C13_Witness ==
  /\ err = "none" /\ small_k > big_k /\ big_k > 0
  /\ \E e \in seen : e.widths = <<big_k, small_k>> /\ e.at < ncalls /\ e.res.err = "none"
  /\ \E r \in 1..Len(delta), c \in 1..Len(delta[1]) : delta[r][c] > 0
  /\ \E r \in 1..Len(delta), c \in 1..Len(delta[1]) : delta[r][c] < 0
  /\ dsigma > 0

\* the sum over the cells of the squared deviation from the mean of the field
RECURSIVE SumSqDev(_, _)
SumSqDev(cells, mu) ==
  IF cells = <<>> THEN 0
  ELSE (Head(cells) - mu) * (Head(cells) - mu) + SumSqDev(Tail(cells), mu)

\* the population variance: the sum of squared deviations over the number N
\* of cells (not N - 1)
PopVariance(field) ==
  SumSqDev(Flatten(field), RoundDiv(SumGrid(field), Len(field) * Len(field[1])))
    \div (Len(field) * Len(field[1]))

\* C14: the sigma dwarf_filter returns is the population standard deviation
\* of the filtered field before clipping: its square is the population
\* variance of delta, to the resolution of the field values.
C14_SigmaIsPopulationStd ==
  Returned =>
    /\ dsigma >= 0
    /\ dsigma * dsigma <= PopVariance(delta)
    /\ PopVariance(delta) < (dsigma + 1) * (dsigma + 1)

\* a returned sigma that differs from the standard deviation of the clipped
\* field, from that of the histogram and from the sample-corrected one
C14_Witness ==
  /\ Returned
  /\ dsigma > 0
  /\ dsigma # Std(clipped)
  /\ dsigma # FScale * Std(raw)
  /\ dsigma # StdSample(delta)

\* C15 (as claimed): no two candidates lie within box_size of each other: of
\* the cells above the threshold in one box_size window only the larger is
\* returned, and of tied cells only the one with the lowest index.
C15_Original ==
  PeaksRan =>
    \A p \in PeakCells, q \in PeakCells : p # q => q \notin WindowOf(p)

\* C15: candidates can lie within box_size of each other. No cell of the
\* box_size window around a candidate is larger than the candidate, and the
\* cells that tie for the maximum of their windows are all returned, not only
\* the one with the lowest index.
C15_TiedMaximaAllReturned ==
  PeaksRan =>
    /\ \A p \in PeakCells : \A q \in WindowOf(p) : clipped[q[1]][q[2]] <= clipped[p[1]][p[2]]
    /\ tbl.kind = "Table" =>
         \A p \in PeakCells : \A q \in Grid :
           (/\ clipped[q[1]][q[2]] = clipped[p[1]][p[2]]
            /\ IsWindowMax(q)
            /\ Overhangs(q) => clipped[q[1]][q[2]] >= 0) => q \in PeakCells

\* two candidates of equal value, one in the box_size window around the other
C15_Witness ==
  /\ pc = "found"
  /\ \E p \in PeakCells, q \in PeakCells :
       /\ p # q
       /\ q \in WindowOf(p)
       /\ clipped[q[1]][q[2]] = clipped[p[1]][p[2]]

\* every cell of the clipped field has the same value
ConstantField == \A p \in Grid : clipped[p[1]][p[2]] = clipped[1][1]

\* the lowest-index cell of every box_size by box_size tile of the field
TileCorners == {p \in Grid : (p[1] - 1) % BoxSize = 0 /\ (p[2] - 1) % BoxSize = 0}

\* C16 (as claimed): on a field in which every cell has the same value c,
\* peak finding with a threshold greater than c yields an empty table, and with
\* a threshold below c one cell per box_size by box_size tile.
C16_ConstantFieldPeaks ==
  (PeaksRan /\ ConstantField) =>
    /\ err = "none" /\ pc = "found" /\ tbl.kind = "Table"
    /\ Threshold > clipped[1][1] => tbl.rows = <<>>
    /\ Threshold < clipped[1][1] => PeakCells = TileCorners

\* the positions at which at least Cluster input points coincide
ClusterAt ==
  {q \in RAVals \X DecVals :
     Cardinality({k \in 1..Len(ra) : ra[k] = q[1] /\ dec[k] = q[2]}) >= Cluster}

\* the input is one dense cluster and a background of single points
ClusterOnBackground ==
  /\ ~Malformed
  /\ Cardinality(ClusterAt) = 1
  /\ \E k \in 1..Len(ra) : <<ra[k], dec[k]>> \notin ClusterAt

\* the bin widths of the field, rounded up to the resolution of the sky
\* coordinates (one arcsecond)
BinWidthRA == Ceil(extent[2] - extent[1], Len(clipped[1]))
BinWidthDec == Ceil(extent[4] - extent[3], Len(clipped))

ClippedStd == SigmaClippedStats(clipped, 3, 5).std

\* C18 (as claimed): the find-peaks cell selects 10-sigma peaks: a cell is
\* reported only if it exceeds the sigma-clipped median of the clipped field
\* by more than 10 sigma-clipped standard deviations.
C18_TenSigmaPeaks ==
  PeaksRan =>
    \A p \in PeakCells :
      clipped[p[1]][p[2]] > SigmaClippedStats(clipped, 3, 5).median + 10 * ClippedStd

\* the extents of the two axes: Dec in arcseconds, RA in units of 1e-6
\* arcseconds of true angle (the RA span times the cos() dwarf_filter uses)
DecSpan == SeriesMax(dec) - SeriesMin(dec)
RASpanE6 == (SeriesMax(ra) - SeriesMin(ra)) * CosE6(SeriesMin(dec) + SeriesMax(dec))

\* C19: the number of bins along each axis is the arcminute extent of the
\* axis rounded to the nearest integer (no other integer is nearer), and a
\* histogram that dwarf_filter returns has at least 1 bin in each axis.
C19_BinsAreRoundedArcminutes ==
  Returned =>
    /\ NRows >= 1 /\ NCols >= 1
    /\ \A r \in 1..NRows : Len(raw[r]) = NCols
    /\ 2 * Abs(60 * NRows - DecSpan) <= 60
    /\ 2 * Abs(60000000 * NCols - RASpanE6) <= 60000000

\* a histogram whose bin numbers were both rounded up: 3 Dec bins for 2.67
\* arcmin and 4 RA bins for 3.50 arcmin
C19_Witness ==
  /\ Returned
  /\ DecSpan = 160 /\ NRows = 3
  /\ SeriesMax(ra) - SeriesMin(ra) = 240 /\ NCols = 4

\* the sum over the input points with a declination in S of the offset of
\* the declination from DecBase
RECURSIVE DecOffsetSum(_)
DecOffsetSum(S) ==
  IF S = {} THEN 0
  ELSE LET d == CHOOSE v \in S : TRUE
       IN  (d - DecBase) * Cardinality({k \in 1..Len(dec) : dec[k] = d})
             + DecOffsetSum(S \ {d})

\* twice the average declination of the input points, in arcseconds
DecAverage2 == 2 * DecBase + RoundDiv(2 * DecOffsetSum(Range(dec)), Len(dec))

\* twice the middle of the declination range
DecMidRange2 == SetMin(Range(dec)) + SetMax(Range(dec))

\* the number of RA bins for the cos() of half the declination d2
BinsForDec(d2) == Rint((SeriesMax(ra) - SeriesMin(ra)) * CosE6(d2), 60000000)

\* C20 (as claimed): the declination in the cos(dec) correction of the RA
\* extent is the average declination of the input points.
C20_Original ==
  Returned => NCols = BinsForDec(DecAverage2)

\* C20: the declination in the cos(dec) correction of the RA extent is the
\* middle of the declination range, (dec_min + dec_max)/2, whatever the
\* distribution of the points between dec_min and dec_max.
C20_MidRangeDeclination ==
  Returned => NCols = BinsForDec(DecMidRange2)

\* a returned histogram on points crowded at the upper end of the
\* declination range, for which the average declination gives another number
\* of RA bins than the middle of the range
C20_Witness ==
  /\ Returned
  /\ DecAverage2 > DecMidRange2
  /\ BinsForDec(DecAverage2) # BinsForDec(DecMidRange2)

\* the filtered field of the returned histogram for kernels of standard
\* deviation fwhm/(k/10000)
DeltaForConstant(k) ==
  [r \in 1..NRows |-> [c \in 1..NCols |->
     ConvolveWith(k, "fill", raw, small_k)[r][c]
       - ConvolveWith(k, "fill", raw, big_k)[r][c]]]

\* C21 (as claimed): the two kernels have the standard deviations
\* fwhm_small/2.354820045 and fwhm_big/2.354820045 pixels.
C21_Original ==
  Returned => delta = DeltaForConstant(FwhmToSigmaExactE4)

\* C21: the two kernels have the standard deviations fwhm_small/2.35 and
\* fwhm_big/2.35 pixels (2.35, not 2.354820045): the filtered field is the
\* difference of the convolutions with exactly these kernels.
C21_KernelsUseTwoPointThreeFive ==
  Returned => delta = DeltaForConstant(23500)

\* a returned filtered field that differs from the one the kernels of
\* fwhm/2.354820045 give
C21_Witness ==
  /\ Returned
  /\ small_k = 2 /\ big_k = 20
  /\ delta # DeltaForConstant(FwhmToSigmaExactE4)


\* C22: the extent returned by dwarf_filter is <<ra_min, ra_max, dec_min,
\* dec_max>>, the outermost bin edges of the histogram, which are the least
\* and the greatest RA and Dec of the input points; every input point lies
\* inside the extent.
C22_ExtentIsDataRange ==
  Returned =>
    /\ extent = <<SeriesMin(ra), SeriesMax(ra), SeriesMin(dec), SeriesMax(dec)>>
    /\ \A k \in 1..Len(ra) :
         /\ extent[1] <= ra[k] /\ ra[k] <= extent[2]
         /\ extent[3] <= dec[k] /\ dec[k] <= extent[4]

\* a returned call whose Dec range (160 arcsec) is not a whole multiple of its
\* three bins
C22_Witness ==
  /\ Returned
  /\ extent[4] - extent[3] = 160
  /\ NRows = 3
  /\ extent[2] > extent[1]



\* the histogram surrounded by a ring of empty cells
Padded(hist) ==
  [r \in 1..(Len(hist) + 2) |-> [c \in 1..(Len(hist[1]) + 2) |->
     IF r = 1 \/ r = Len(hist) + 2 \/ c = 1 \/ c = Len(hist[1]) + 2
     THEN 0 ELSE hist[r - 1][c - 1]]]

\* the convolution of the histogram in its ring of empty cells, on the cells
\* of the histogram: beyond the ring every continuation of the grid by its
\* nearest cells is empty as well
ZeroRingField(fwhm) ==
  LET conv == ConvolveWith(FwhmToSigmaE4, "extend", Padded(raw), fwhm)
  IN  [r \in 1..NRows |-> [c \in 1..NCols |-> conv[r + 1][c + 1]]]

\* the filtered field under a boundary option, the same for both kernels
DeltaForBoundary(boundary) ==
  Subtract(ConvolveWith(FwhmToSigmaE4, boundary, raw, small_k),
           ConvolveWith(FwhmToSigmaE4, boundary, raw, big_k))

\* the point sets small enough for the sums of the continued grid
FewPoints == Len(ra) <= 4

UniformHistogram ==
  \A r \in 1..NRows, c \in 1..NCols : raw[r][c] = raw[1][1]

\* C24: the difference-of-Gaussians filter has zero net response to a uniform
\* background: for a histogram holding the same count in every cell the
\* filtered field is zero in every cell, and the clipped field is constant.
C24_UniformBackgroundCancels ==
  Returned /\ UniformHistogram =>
    /\ \A r \in 1..NRows, c \in 1..NCols : delta[r][c] = 0
    /\ \A r \in 1..NRows, c \in 1..NCols : clipped[r][c] = clipped[1][1]

\* a uniform histogram of several cells has been filtered
C24_UniformFiltered ==
  /\ Returned /\ UniformHistogram
  /\ NRows * NCols > 1
  /\ raw[1][1] > 0
  /\ small_k = 2 /\ big_k = 20



\* the cells of the filtered field below its mean
BelowMean == {p \in (1..NRows) \X (1..NCols) : delta[p[1]][p[2]] < Mean(delta)}

Seconds(text) == CASE text = <<9, 0>> -> 90 [] text = <<3, 0, 0>> -> 300

\* the rows of the search result that are stacked images in band b
Matching(b) ==
  {i \in 1..Len(imgTable) :
     /\ imgTable[i].obs_bandpass = b
     /\ imgTable[i].proctype = "Stack"
     /\ imgTable[i].prodtype = "image"}

\* row i is a stacked image in band b, and none of them was exposed longer
Deepest(i, b) ==
  /\ i \in Matching(b)
  /\ \A j \in Matching(b) : Seconds(imgTable[j].exptime) <= Seconds(imgTable[i].exptime)

DeepStackReturned == imgPc = "returned" /\ image.kind # "unbound"

C26_WitnessNone ==
  /\ DeepStackReturned
  /\ image.kind = "None"
  /\ Len(imgTable) = MaxRows
  /\ \E i \in 1..Len(imgTable) : imgTable[i].obs_bandpass = band

DeepestReturned == images.kind = "list"

\* C27: download_deepest_images, whenever it returns, returns one image per
\* band asked for, in the order of the bands, each a stacked image of its band
\* with the greatest exposure time; and when a band asked for has no stacked
\* image the call raises and returns no list.
C27_OneDeepestImagePerBand ==
  /\ DeepestReturned =>
       /\ imgPc = "returned"
       /\ Len(images.list) = Len(bands)
       /\ \A b \in 1..Len(bands) :
            /\ images.list[b].kind = "image"
            /\ Deepest(images.list[b].url, bands[b])
  /\ (imgPc # "searched" /\ \E b \in 1..Len(bands) : Matching(bands[b]) = {}) =>
       imgPc = "raised" /\ images.kind = "unbound"

\* the call returned the images of two bands, the second band's rows coming
\* first in the table
C27_Witness ==
  /\ DeepestReturned
  /\ Len(bands) = 2
  /\ images.list[1].url > images.list[2].url
  /\ Len(imgTable) = MaxRows

\* the call raised at its second band, after the download of the first
C27_WitnessRaised ==
  /\ imgPc = "raised"
  /\ Len(bands) >= 2
  /\ Len(fetched) = 1



\* fractions compared and multiplied without reduction
SameValue(a, b) == a[1] * b[2] = b[1] * a[2]
Product(a, b) == <<a[1] * b[1], a[2] * b[2]>>
OnePlus(zz) == <<zz[2] + zz[1], zz[2]>>

RemovalRan == t_comb_unique.kind # "unbound" \/ xmErr # "none"

\* the number of rows of the sequence rows with the SDSS specid id
RowsOf(rows, id) == Cardinality({i \in 1..Len(rows) : rows[i].specid_sdss = id})

\* the SDSS objects matched to more than one DESI object
MatchedTwice == {id \in SdssIds : RowsOf(t_comb, id) > 1}

\* C29: after the removal of the duplicates every SDSS specid appears in at
\* most one row of t_comb_unique, however many SDSS objects were matched to
\* more than one DESI object (none, one or several), and the rows whose SDSS
\* specid was matched only once are all kept.
C29_DuplicatesRemoved ==
  RemovalRan =>
    /\ xmErr = "none"
    /\ t_comb_unique.kind = "Table"
    /\ \A id \in SdssIds : RowsOf(t_comb_unique.rows, id) <= 1
    /\ \A i \in 1..Len(t_comb) :
         RowsOf(t_comb, t_comb[i].specid_sdss) = 1 =>
           \E j \in 1..Len(t_comb_unique.rows) : t_comb_unique.rows[j] = t_comb[i]

\* the removal does what C29 says when exactly one SDSS object was matched
\* more than once
RemovalOfOneObject ==
  RemovalRan /\ Cardinality(MatchedTwice) = 1 =>
    /\ xmErr = "none"
    /\ t_comb_unique.kind = "Table"
    /\ \A id \in SdssIds : RowsOf(t_comb_unique.rows, id) <= 1
    /\ \A i \in 1..Len(t_comb) :
         RowsOf(t_comb, t_comb[i].specid_sdss) = 1 =>
           \E j \in 1..Len(t_comb_unique.rows) : t_comb_unique.rows[j] = t_comb[i]


====
